---- MODULE Spec2Model ----
(***************************************************************************)
(* A model of the Runner of src/kubernetes/kubernetes.go: the registry of  *)
(* participants, the three latches (started, done, interrupt), the RPC     *)
(* handlers Register, Exit, Status and WriteLogs, the lifecycle controls   *)
(* Interrupt, Terminate, WaitStatus and Run, and the client stub's         *)
(* Connect, Exit and AwaitRunState.                                        *)
(***************************************************************************)
EXTENDS Integers, Sequences, FiniteSets, TLC

----------------------------------------------------------------------------
(* Bounds of the model *)

\* the largest Config.ClientCount the model constructs a Runner with
MaxClients == 4

\* the largest number of bytes the log sink holds
MaxLogLen == 1

----------------------------------------------------------------------------
(* Constants of the program *)

checkoutContainerID == 0
commandContainerID == 1

stateUnknown == 0
stateConnected == 1
stateExited == 2

RunStateWait == "wait"
RunStateGo == "go"
RunStateInterrupt == "interrupt"

\* the zero value of RunState: what *reply holds when the handler wrote nothing
RunStateZero == ""

\* Config.AccessToken, and the zero value of RegisterResponse.AccessToken
AccessToken == "token"
NoToken == ""

\* process.WaitStatus is an interface: NilStatus is its nil value, the others
\* are the wait statuses of the test file
NilStatus == [IsNil |-> TRUE, Code |-> 0, Signaled |-> FALSE]
waitStatusSuccess == [IsNil |-> FALSE, Code |-> 0, Signaled |-> FALSE]
waitStatusFailure == [IsNil |-> FALSE, Code |-> 1, Signaled |-> FALSE]
WaitStatuses == {waitStatusSuccess, waitStatusFailure}

\* waitStatus.ExitStatus()
ExitStatus(w) == w.Code

\* error values. errors.Is(err, target) on these is identity of the value.
NoError == [type |-> "nil", msg |-> "", arg |-> <<>>]
ErrShutdown == [type |-> "*errors.errorString", msg |-> "connection is shut down", arg |-> <<>>]
ErrUnrecognized(id) == [type |-> "*fmt.wrapError", msg |-> "unrecognized client id: %d", arg |-> <<id>>]
ErrNotFound(id) == [type |-> "*fmt.wrapError", msg |-> "client id %d not found", arg |-> <<id>>]
ErrAlreadyRegistered(id) == [type |-> "*fmt.wrapError", msg |-> "client id %d already registered", arg |-> <<id>>]
\* a run-time panic, which ends the process
PanicCloseNil == [type |-> "panic", msg |-> "close of nil channel", arg |-> <<>>]
PanicNilDeref == [type |-> "panic", msg |-> "nil pointer dereference", arg |-> <<>>]
PanicCloseClosed == [type |-> "panic", msg |-> "close of closed channel", arg |-> <<>>]

\* a channel is nil (never made), open or closed
ChanNil == "nil"
ChanOpen == "open"
ChanClosed == "closed"

----------------------------------------------------------------------------
VARIABLES
    clientCount,    \* Runner.conf.ClientCount
    clients,        \* Runner.clients: id -> clientResult
    started,        \* Runner.started (channel)
    done,           \* Runner.done (channel)
    interrupt,      \* Runner.interrupt (channel)
    startedOnce,    \* Runner.startedOnce has run
    closedOnce,     \* Runner.closedOnce has run
    interruptOnce,  \* Runner.interruptOnce has run
    stdout,         \* the bytes written to Runner.conf.Stdout
    crashed,        \* the process has died of a panic
    ret,            \* the last call and what it returned
    terminateCalled,\* Terminate() has been called
    interruptCalled,\* Interrupt() has been called
    replacedStatus, \* the status that a traced Exit call found in its slot
    runPc,          \* where Run(ctx) is: "new", "serving" or "returned"
    runErr,         \* what Run returned
    socketFile,     \* the file at conf.SocketPath exists
    listener,       \* Runner.listener: "nil", "open" or "closed"
    ctxCancelled,   \* the context given to Run has been cancelled
    stubs           \* the client stubs (Client), by number

vars == <<clientCount, clients, started, done, interrupt, startedOnce,
          closedOnce, interruptOnce, stdout, crashed, ret,
          terminateCalled, interruptCalled, replacedStatus,
          runPc, runErr, socketFile, listener, ctxCancelled, stubs>>

runVars == <<runPc, runErr, socketFile, listener, ctxCancelled>>

latches == <<started, done, interrupt, startedOnce, closedOnce, interruptOnce>>
ghosts == <<terminateCalled, interruptCalled, replacedStatus>>

----------------------------------------------------------------------------
(* clientResult *)

clientResult == [ExitStatus |-> NilStatus, State |-> stateUnknown]

\* Connected() that forgets stateExited
ConnectedNotExited(c) == c.State = stateConnected

Connected(c) == c.State = stateConnected \/ c.State = stateExited

Exited(c) == c.State = stateExited

\* the ids a caller may pass: the registry's and one beyond the largest
ArgIDs == 0 .. MaxClients

LogBuffers == {<<>>, <<"a">>}

Call(op, id, reply, err) == [op |-> op, id |-> id, reply |-> reply, err |-> err]

----------------------------------------------------------------------------
(* New *)

New ==
    /\ clientCount \in 1 .. MaxClients
    /\ clients = [i \in 0 .. clientCount - 1 |-> clientResult]
    /\ started = ChanOpen
    /\ done = ChanOpen
    /\ interrupt = ChanNil
    /\ startedOnce = FALSE
    /\ closedOnce = FALSE
    /\ interruptOnce = FALSE
    /\ stdout = <<>>
    /\ crashed = FALSE
    /\ ret = Call("New", 0, NoToken, NoError)
    /\ terminateCalled = FALSE
    /\ interruptCalled = FALSE
    /\ replacedStatus = NilStatus
    /\ runPc = "new"
    /\ runErr = NoError
    /\ socketFile = FALSE
    /\ listener = "nil"
    /\ ctxCancelled = FALSE

\* a Runner, and no client stub
Init == New /\ stubs = <<>>

----------------------------------------------------------------------------
(* Runner.Register. Each RPC handler is given as its effect on the Runner    *)
(* and what it returns; Register(id) is the handler called on the object,   *)
(* as the tests call it, and the stubs call it through the socket.          *)

\* RegisterError without the test of Connected()
RegisterErrorUnknownOnly(id) ==
    IF id \notin DOMAIN clients THEN ErrNotFound(id) ELSE NoError

\* RegisterError without the test of found
RegisterErrorKnownOnly(id) ==
    IF id \in DOMAIN clients /\ Connected(clients[id])
    THEN ErrAlreadyRegistered(id)
    ELSE NoError

RegisterError(id) ==
    IF id \notin DOMAIN clients THEN ErrNotFound(id)
    ELSE IF Connected(clients[id]) THEN ErrAlreadyRegistered(id)
    ELSE NoError

\* RegisterReturn with the token set before the tests
RegisterReturnTokenFirst(id) ==
    [reply |-> AccessToken, err |-> RegisterError(id)]

\* what Register(id) returns: the reply and the error
RegisterReturn(id) ==
    IF RegisterError(id) # NoError
    THEN [reply |-> NoToken, err |-> RegisterError(id)]
    ELSE [reply |-> AccessToken, err |-> NoError]

\* RegisterEffect without the assignment of line 231
RegisterEffectNoWrite(id) ==
    /\ ~crashed
    /\ startedOnce' = TRUE
    /\ started' = IF startedOnce THEN started ELSE ChanClosed
    /\ UNCHANGED <<clientCount, clients, done, interrupt, closedOnce,
                   interruptOnce, stdout, crashed, ghosts, runVars>>

\* what Register(id) does to the Runner
RegisterEffect(id) ==
    /\ ~crashed
    /\ startedOnce' = TRUE
    /\ started' = IF startedOnce THEN started ELSE ChanClosed
    /\ clients' = IF RegisterError(id) # NoError
                  THEN clients
                  ELSE [clients EXCEPT ![id].State = stateConnected]
    /\ UNCHANGED <<clientCount, done, interrupt, closedOnce, interruptOnce,
                   stdout, crashed, ghosts, runVars>>

Register(id) ==
    /\ RegisterEffect(id)
    /\ ret' = Call("Register", id, RegisterReturn(id).reply, RegisterReturn(id).err)
    /\ UNCHANGED stubs

----------------------------------------------------------------------------
(* Runner.Exit *)

\* the loop of lines 204-207, which visits every entry of the map
RECURSIVE AllExitedOver(_, _)
AllExitedOver(cs, ids) ==
    IF ids = {} THEN TRUE
    ELSE LET i == CHOOSE x \in ids : TRUE IN
         LET allExited == AllExitedOver(cs, ids \ {i}) IN
         cs[i].State = stateExited /\ allExited

\* AllExited with || for && in the loop
AnyExited(cs) == \E i \in DOMAIN cs : cs[i].State = stateExited

AllExited(cs) == AllExitedOver(cs, DOMAIN cs)

\* close(ch): only an open channel can be closed, anything else panics
CloseChan(ch) ==
    IF ch = ChanOpen
    THEN [ch |-> ChanClosed, panic |-> FALSE]
    ELSE [ch |-> ch, panic |-> TRUE]

\* close(r.done) with no Once around it
CloseDoneEachTime ==
    [once |-> TRUE, ch |-> CloseChan(done).ch, panic |-> CloseChan(done).panic]

\* r.closedOnce.Do(func() { close(r.done) }), of Exit and of Terminate: what
\* becomes of the Once and of the channel, and whether the call panics
CloseDoneOnce ==
    IF closedOnce
    THEN [once |-> TRUE, ch |-> done, panic |-> FALSE]
    ELSE [once |-> TRUE, ch |-> CloseChan(done).ch, panic |-> CloseChan(done).panic]

\* the error Exit returns
ExitReturn(id) ==
    IF id \notin DOMAIN clients THEN ErrUnrecognized(id) ELSE NoError

\* ExitEffect without the assignment of line 201
ExitEffectStateOnly(id, exitStatus) ==
    /\ ~crashed
    /\ IF id \notin DOMAIN clients
       THEN UNCHANGED <<clients, done, closedOnce, crashed>>
       ELSE LET cs == [clients EXCEPT ![id].State = stateExited] IN
            /\ clients' = cs
            /\ IF AllExited(cs)
               THEN /\ closedOnce' = CloseDoneOnce.once
                    /\ done' = CloseDoneOnce.ch
                    /\ crashed' = CloseDoneOnce.panic
               ELSE UNCHANGED <<done, closedOnce, crashed>>
    /\ UNCHANGED <<clientCount, started, interrupt, startedOnce, interruptOnce,
                   stdout, terminateCalled, interruptCalled, runVars>>

\* ExitEffect that leaves a slot alone once it is Exited
ExitEffectFirstExitWins(id, exitStatus) ==
    /\ ~crashed
    /\ IF id \notin DOMAIN clients
       THEN UNCHANGED <<clients, done, closedOnce, crashed>>
       ELSE LET cs == IF clients[id].State = stateExited
                      THEN clients
                      ELSE [clients EXCEPT ![id] =
                               [ExitStatus |-> exitStatus, State |-> stateExited]] IN
            /\ clients' = cs
            /\ IF AllExited(cs)
               THEN /\ closedOnce' = CloseDoneOnce.once
                    /\ done' = CloseDoneOnce.ch
                    /\ crashed' = CloseDoneOnce.panic
               ELSE UNCHANGED <<done, closedOnce, crashed>>
    /\ UNCHANGED <<clientCount, started, interrupt, startedOnce, interruptOnce,
                   stdout, terminateCalled, interruptCalled, runVars>>

\* what Exit does to the Runner
ExitEffect(id, exitStatus) ==
    /\ ~crashed
    /\ IF id \notin DOMAIN clients
       THEN UNCHANGED <<clients, done, closedOnce, crashed>>
       ELSE LET cs == [clients EXCEPT ![id] =
                          [ExitStatus |-> exitStatus, State |-> stateExited]] IN
            /\ clients' = cs
            /\ IF AllExited(cs)
               THEN /\ closedOnce' = CloseDoneOnce.once
                    /\ done' = CloseDoneOnce.ch
                    /\ crashed' = CloseDoneOnce.panic
               ELSE UNCHANGED <<done, closedOnce, crashed>>
    /\ UNCHANGED <<clientCount, started, interrupt, startedOnce, interruptOnce,
                   stdout, terminateCalled, interruptCalled, runVars>>

Exit(id, exitStatus) ==
    /\ ExitEffect(id, exitStatus)
    /\ ret' = Call("Exit", id, exitStatus, ExitReturn(id))
    /\ UNCHANGED <<stubs, replacedStatus>>

\* Exit, with the history of what it overwrote: the exit status of the slot
\* before the call when the slot was Exited already, NilStatus otherwise
ExitTraced(id, exitStatus) ==
    /\ ExitEffect(id, exitStatus)
    /\ ret' = Call("Exit", id, exitStatus, ExitReturn(id))
    /\ replacedStatus' = IF id \in DOMAIN clients /\ clients[id].State = stateExited
                         THEN clients[id].ExitStatus
                         ELSE NilStatus
    /\ UNCHANGED stubs

----------------------------------------------------------------------------
(* Runner.Status *)

\* the loop of lines 253-270. A range over a map visits the keys in an order
\* that is not specified: CommandReady(ids) is the set of values `ready` may
\* end with, over every order of visiting the keys ids that are left
RECURSIVE CommandReadyExitedSidecars(_)
RECURSIVE CommandReady(_)
RECURSIVE CommandReadyLastWins(_)
RECURSIVE CommandReadyConnectedOnly(_)

\* CommandReady with State == stateConnected for Connected() in the default
\* case
CommandReadyConnectedOnly(ids) ==
    IF ids = {} THEN {TRUE}
    ELSE UNION {
        IF id = commandContainerID THEN CommandReadyConnectedOnly(ids \ {id})
        ELSE IF id = checkoutContainerID
             THEN IF ~Exited(clients[id]) THEN {FALSE}
                  ELSE CommandReadyConnectedOnly(ids \ {id})
             ELSE IF clients[id].State # stateConnected THEN {FALSE}
                  ELSE CommandReadyConnectedOnly(ids \ {id})
        : id \in ids }

\* CommandReady for a loop that assigns each test to `ready` and never
\* breaks: the slot visited last decides
CommandReadyLastWins(ids) ==
    IF ids = {} THEN {TRUE}
    ELSE UNION {
        IF id = commandContainerID THEN CommandReadyLastWins(ids \ {id})
        ELSE IF ids \ {id, commandContainerID} # {}
             THEN CommandReadyLastWins(ids \ {id})
             ELSE IF id = checkoutContainerID
                  THEN {Exited(clients[id])}
                  ELSE {Connected(clients[id])}
        : id \in ids }

\* CommandReady with Exited() for Connected() in the default case
CommandReadyExitedSidecars(ids) ==
    IF ids = {} THEN {TRUE}
    ELSE UNION {
        IF id = commandContainerID THEN CommandReadyExitedSidecars(ids \ {id})
        ELSE IF ~Exited(clients[id]) THEN {FALSE}
             ELSE CommandReadyExitedSidecars(ids \ {id})
        : id \in ids }

CommandReady(ids) ==
    IF ids = {} THEN {TRUE}
    ELSE UNION {
        IF id = commandContainerID THEN CommandReady(ids \ {id})
        ELSE IF id = checkoutContainerID
             THEN IF ~Exited(clients[id]) THEN {FALSE}
                  ELSE CommandReady(ids \ {id})
             ELSE IF ~Connected(clients[id]) THEN {FALSE}
                  ELSE CommandReady(ids \ {id})
        : id \in ids }

\* SidecarStatus with its first two tests in the other order
SidecarStatusCheckoutFirst(id) ==
    IF id \in DOMAIN clients
    THEN IF Exited(clients[checkoutContainerID])
         THEN [reply |-> RunStateGo, err |-> NoError]
         ELSE IF Exited(clients[commandContainerID])
              THEN [reply |-> RunStateInterrupt, err |-> NoError]
              ELSE [reply |-> RunStateWait, err |-> NoError]
    ELSE [reply |-> RunStateZero, err |-> ErrNotFound(id)]

\* lines 276-287
SidecarStatus(id) ==
    IF id \in DOMAIN clients
    THEN IF Exited(clients[commandContainerID])
         THEN [reply |-> RunStateInterrupt, err |-> NoError]
         ELSE IF Exited(clients[checkoutContainerID])
              THEN [reply |-> RunStateGo, err |-> NoError]
              ELSE [reply |-> RunStateWait, err |-> NoError]
    ELSE [reply |-> RunStateZero, err |-> ErrNotFound(id)]

\* StatusSwitch with checkoutContainerID sharing the case of
\* commandContainerID
StatusSwitchCheckoutWaits(id) ==
    IF id = checkoutContainerID \/ id = commandContainerID
    THEN {[reply |-> IF ready THEN RunStateGo ELSE RunStateWait,
           err |-> NoError] : ready \in CommandReady(DOMAIN clients)}
    ELSE {SidecarStatus(id)}

\* the switch of lines 249-288
StatusSwitch(id) ==
    IF id = checkoutContainerID
    THEN {[reply |-> RunStateGo, err |-> NoError]}
    ELSE IF id = commandContainerID
         THEN {[reply |-> IF ready THEN RunStateGo ELSE RunStateWait,
                err |-> NoError] : ready \in CommandReady(DOMAIN clients)}
         ELSE {SidecarStatus(id)}

\* SelectReady without the case of done
SelectReadyInterruptOnly ==
    IF interrupt = ChanClosed THEN {"interrupt"} ELSE {}

\* the cases of the select of lines 239-247 that can proceed: a receive from a
\* closed channel can, a receive from an open or a nil channel cannot
SelectReady ==
    (IF done = ChanClosed THEN {"done"} ELSE {})
        \cup (IF interrupt = ChanClosed THEN {"interrupt"} ELSE {})

\* everything a Status(id) call may return in the current state; a select
\* with several ready cases takes any one of them
StatusOutcomes(id) ==
    IF SelectReady = {}
    THEN StatusSwitch(id)
    ELSE {IF c = "done"
          THEN [reply |-> RunStateZero, err |-> ErrShutdown]
          ELSE [reply |-> RunStateInterrupt, err |-> NoError] : c \in SelectReady}

\* Status changes nothing of the Runner
StatusEffect ==
    /\ ~crashed
    /\ UNCHANGED <<clientCount, clients, latches, stdout, crashed, ghosts, runVars>>

Status(id) ==
    /\ StatusEffect
    /\ \E o \in StatusOutcomes(id) : ret' = Call("Status", id, o.reply, o.err)
    /\ UNCHANGED stubs

----------------------------------------------------------------------------
(* Runner.WriteLogs *)

\* io.Copy to the sink, which takes the bytes
WriteLogsEffect(data) ==
    /\ ~crashed
    /\ Len(stdout) + Len(data) <= MaxLogLen
    /\ stdout' = stdout \o data
    /\ UNCHANGED <<clientCount, clients, latches, crashed, ghosts, runVars>>

WriteLogs(data) ==
    /\ WriteLogsEffect(data)
    /\ ret' = Call("WriteLogs", 0, Len(data), NoError)
    /\ UNCHANGED stubs

----------------------------------------------------------------------------
(* Runner.Interrupt, Runner.Terminate *)

\* interruptOnce.Do(close(r.interrupt)): closing a nil channel panics, and the
\* Once counts as run even so
Interrupt ==
    /\ ~crashed
    /\ interruptCalled' = TRUE
    /\ IF interruptOnce
       THEN /\ ret' = Call("Interrupt", 0, NoToken, NoError)
            /\ UNCHANGED <<interrupt, interruptOnce, crashed>>
       ELSE /\ interruptOnce' = TRUE
            /\ IF interrupt = ChanOpen
               THEN /\ interrupt' = ChanClosed
                    /\ ret' = Call("Interrupt", 0, NoToken, NoError)
                    /\ UNCHANGED crashed
               ELSE /\ crashed' = TRUE
                    /\ ret' = Call("Interrupt", 0, NoToken, PanicCloseNil)
                    /\ UNCHANGED interrupt
    /\ UNCHANGED <<clientCount, clients, started, done, startedOnce, closedOnce,
                   stdout, terminateCalled, replacedStatus, runVars, stubs>>

Terminate ==
    /\ ~crashed
    /\ terminateCalled' = TRUE
    /\ closedOnce' = CloseDoneOnce.once
    /\ done' = CloseDoneOnce.ch
    /\ crashed' = CloseDoneOnce.panic
    /\ ret' = Call("Terminate", 0, NoToken,
                   IF CloseDoneOnce.panic THEN PanicCloseClosed ELSE NoError)
    /\ UNCHANGED <<clientCount, clients, started, interrupt, startedOnce,
                   interruptOnce, stdout, interruptCalled, replacedStatus,
                   runVars, stubs>>

----------------------------------------------------------------------------
(* Runner.WaitStatus *)

\* WaitStatusResult without the test of the exit code
WaitStatusBootstrapFirst ==
    LET bootstrap == clients[checkoutContainerID] IN
    IF ~bootstrap.ExitStatus.IsNil
    THEN [reply |-> bootstrap.ExitStatus, err |-> NoError]
    ELSE IF commandContainerID \in DOMAIN clients
         THEN [reply |-> clients[commandContainerID].ExitStatus, err |-> NoError]
         ELSE [reply |-> NilStatus, err |-> PanicNilDeref]

\* r.clients[commandContainerID] is a nil *clientResult when the registry has
\* no such key, and reading its field panics
WaitStatusResult ==
    LET bootstrap == clients[checkoutContainerID] IN
    IF ~bootstrap.ExitStatus.IsNil /\ ExitStatus(bootstrap.ExitStatus) # 0
    THEN [reply |-> bootstrap.ExitStatus, err |-> NoError]
    ELSE IF commandContainerID \in DOMAIN clients
         THEN [reply |-> clients[commandContainerID].ExitStatus, err |-> NoError]
         ELSE [reply |-> NilStatus, err |-> PanicNilDeref]

WaitStatus ==
    /\ ~crashed
    /\ ret' = Call("WaitStatus", 0, WaitStatusResult.reply, WaitStatusResult.err)
    /\ crashed' = (WaitStatusResult.err = PanicNilDeref)
    /\ UNCHANGED <<clientCount, clients, latches, stdout, ghosts, runVars, stubs>>

----------------------------------------------------------------------------
(* Runner.Run *)

ErrListen == [type |-> "*fmt.wrapError", msg |-> "failed to listen: %w", arg |-> <<>>]

\* lines 98-108: Listen binds the socket, or fails and Run returns the error
\* before any defer is set up. The context is given to Listen and to nothing
\* else.
RunListen ==
    /\ ~crashed
    /\ runPc = "new"
    /\ \E bound \in BOOLEAN :
        IF bound
        THEN /\ socketFile' = TRUE
             /\ listener' = "open"
             /\ runPc' = "serving"
             /\ UNCHANGED runErr
        ELSE /\ runPc' = "returned"
             /\ runErr' = ErrListen
             /\ UNCHANGED <<socketFile, listener>>
    /\ UNCHANGED <<clientCount, clients, latches, stdout, crashed, ret, ghosts,
                   ctxCancelled, stubs>>

\* RunReturn without the receive from done of line 110
RunReturnNoWait ==
    /\ ~crashed
    /\ runPc = "serving"
    /\ socketFile' = FALSE
    /\ listener' = "closed"
    /\ runPc' = "returned"
    /\ runErr' = NoError
    /\ UNCHANGED <<clientCount, clients, latches, stdout, crashed, ret, ghosts,
                   ctxCancelled, stubs>>

\* lines 110-112 and the defers of lines 105-106: the receive from done
\* proceeds once done is closed, then the socket file is removed and the
\* listener closed
RunReturn ==
    /\ ~crashed
    /\ runPc = "serving"
    /\ done = ChanClosed
    /\ socketFile' = FALSE
    /\ listener' = "closed"
    /\ runPc' = "returned"
    /\ runErr' = NoError
    /\ UNCHANGED <<clientCount, clients, latches, stdout, crashed, ret, ghosts,
                   ctxCancelled, stubs>>

\* the caller of Run cancels the context
CancelCtx ==
    /\ ~crashed
    /\ ~ctxCancelled
    /\ ctxCancelled' = TRUE
    /\ UNCHANGED <<clientCount, clients, latches, stdout, crashed, ret, ghosts,
                   runPc, runErr, socketFile, listener, stubs>>

----------------------------------------------------------------------------
(* Client *)

\* the largest number of client stubs
MaxStubs == 2

errNotConnected == [type |-> "*errors.errorString", msg |-> "client not connected", arg |-> <<>>]
ErrDial == [type |-> "*net.OpError", msg |-> "dial unix", arg |-> <<>>]

\* what rpc.Client.Call returns for the error a handler returned: net/rpc
\* sends the error's text, and the client makes an rpc.ServerError of it
ServerError(e) == [type |-> "rpc.ServerError", msg |-> e.msg, arg |-> e.arg]

CallError(e) == IF e = NoError THEN NoError ELSE ServerError(e)

\* errors.Is(err, target): neither error type here has Is or Unwrap
ErrorsIs(err, target) == err = target

\* Client{ID: id}, with what its last method returned
Client(id) ==
    [ID |-> id, client |-> "nil", registered |-> FALSE, pc |-> "idle",
     desired |-> RunStateZero, op |-> "", err |-> NoError]

runnerVars == <<clientCount, clients, latches, stdout, crashed, ghosts, runVars>>

\* Client.Connect
Connect(s) ==
    /\ ~crashed
    /\ stubs[s].pc = "idle"
    /\ IF listener # "open"
       THEN /\ stubs' = [stubs EXCEPT ![s].op = "Connect", ![s].err = ErrDial]
            /\ UNCHANGED runnerVars
       ELSE /\ RegisterEffect(stubs[s].ID)
            /\ LET resp == RegisterReturn(stubs[s].ID) IN
               stubs' = [stubs EXCEPT ![s].client = "open",
                                      ![s].op = "Connect",
                                      ![s].err = CallError(resp.err),
                                      ![s].registered = @ \/ resp.err = NoError]
    /\ UNCHANGED ret

\* Client.Exit
ClientExit(s, exitStatus) ==
    /\ ~crashed
    /\ stubs[s].pc = "idle"
    /\ IF stubs[s].client = "nil"
       THEN /\ stubs' = [stubs EXCEPT ![s].op = "Exit", ![s].err = errNotConnected]
            /\ UNCHANGED runnerVars
       ELSE /\ ExitEffect(stubs[s].ID, exitStatus)
            /\ stubs' = [stubs EXCEPT ![s].op = "Exit",
                                      ![s].err = CallError(ExitReturn(stubs[s].ID))]
            /\ UNCHANGED replacedStatus
    /\ UNCHANGED ret

\* Client.AwaitRunState is called
AwaitRunState(s, desiredState) ==
    /\ ~crashed
    /\ stubs[s].pc = "idle"
    /\ stubs[s].client = "open"
    /\ stubs' = [stubs EXCEPT ![s].pc = "polling", ![s].desired = desiredState]
    /\ UNCHANGED <<runnerVars, ret>>

\* what one turn of the loop of lines 343-356 does with the answer of
\* Runner.Status: "sleep" and poll again, or return
AwaitStep(desiredState, current, err) ==
    IF err # NoError
    THEN IF desiredState = RunStateInterrupt /\ ErrorsIs(err, ErrShutdown)
         THEN [pc |-> "idle", err |-> NoError]
         ELSE [pc |-> "idle", err |-> err]
    ELSE IF current = desiredState
         THEN [pc |-> "idle", err |-> NoError]
         ELSE [pc |-> "polling", err |-> NoError]

\* one poll of Client.AwaitRunState
AwaitPoll(s) ==
    /\ ~crashed
    /\ stubs[s].pc = "polling"
    /\ StatusEffect
    /\ \E o \in StatusOutcomes(stubs[s].ID) :
        LET step == AwaitStep(stubs[s].desired, o.reply, CallError(o.err)) IN
        stubs' = [stubs EXCEPT ![s].pc = step.pc,
                               ![s].op = IF step.pc = "idle" THEN "AwaitRunState" ELSE @,
                               ![s].err = IF step.pc = "idle" THEN step.err ELSE @]
    /\ UNCHANGED ret

\* what Client.Write(p) returns past the test of c.client, before any call:
\* a stub of a sidecar returns at line 333, the others go on to the call
WriteReturn(id, p) ==
    IF id # checkoutContainerID /\ id # commandContainerID
    THEN [call |-> FALSE, n |-> 0]
    ELSE [call |-> TRUE, n |-> Len(p)]

\* Client.Write; ret keeps p with the count and the error returned
ClientWrite(s, p) ==
    /\ ~crashed
    /\ stubs[s].pc = "idle"
    /\ IF stubs[s].client = "nil"
       THEN /\ ret' = Call("Write", stubs[s].ID, [p |-> p, n |-> 0], errNotConnected)
            /\ UNCHANGED runnerVars
       ELSE LET w == WriteReturn(stubs[s].ID, p) IN
            /\ ret' = Call("Write", stubs[s].ID, [p |-> p, n |-> w.n], NoError)
            /\ IF w.call
               THEN WriteLogsEffect(p)
               ELSE UNCHANGED runnerVars
    /\ UNCHANGED stubs

----------------------------------------------------------------------------
(* The participants: one container per slot, each driving its own stub *)

\* Client.IsSidecar
IsSidecar(s) == stubs[s].ID > commandContainerID

\* the stub's last call has returned nil and no call is under way
Returned(s, op) ==
    stubs[s].pc = "idle" /\ stubs[s].op = op /\ stubs[s].err = NoError

\* a container starts once the Runner listens, and connects
ParticipantConnect(s) ==
    /\ stubs[s].op = ""
    /\ listener = "open"
    /\ Connect(s)

\* registered, it waits to be cleared
ParticipantAwaitGo(s) ==
    /\ Returned(s, "Connect")
    /\ AwaitRunState(s, RunStateGo)

\* cleared, a sidecar runs until it is told to stop
ParticipantAwaitInterrupt(s) ==
    /\ Returned(s, "AwaitRunState")
    /\ stubs[s].desired = RunStateGo
    /\ IsSidecar(s)
    /\ AwaitRunState(s, RunStateInterrupt)

\* its payload over, a participant reports its exit, once
ParticipantExit(s, exitStatus) ==
    /\ Returned(s, "AwaitRunState")
    /\ IsSidecar(s) => stubs[s].desired = RunStateInterrupt
    /\ ClientExit(s, exitStatus)

\* every step of participant s
Participant(s) ==
    \/ ParticipantConnect(s)
    \/ ParticipantAwaitGo(s)
    \/ AwaitPoll(s)
    \/ ParticipantAwaitInterrupt(s)
    \/ \E w \in WaitStatuses : ParticipantExit(s, w)

----------------------------------------------------------------------------
\* The exported methods of the Runner called on the object, as its tests do.
Next ==
    \/ \E id \in ArgIDs : Register(id)
    \/ \E id \in ArgIDs, w \in WaitStatuses : Exit(id, w)
    \/ \E id \in ArgIDs : Status(id)
    \/ \E data \in LogBuffers : WriteLogs(data)
    \/ Interrupt
    \/ Terminate
    \/ WaitStatus

Spec == Init /\ [][Next]_vars

\* Run in its goroutine, with the calls that fire done and the cancellation of
\* its context. Run, once called, goes on whenever it can.
NextRun ==
    \/ RunListen
    \/ RunReturn
    \/ CancelCtx
    \/ Terminate
    \/ \E id \in ArgIDs : Register(id)
    \/ \E id \in ArgIDs, w \in WaitStatuses : Exit(id, w)

SpecRun ==
    Init /\ [][NextRun]_vars /\ WF_vars(RunListen) /\ WF_vars(RunReturn)

\* Client stubs that reach the Runner through its socket.
InitStub ==
    /\ New
    /\ stubs \in [1 .. MaxStubs -> {Client(id) : id \in DOMAIN clients}]

NextStub ==
    \/ RunListen
    \/ RunReturn
    \/ Terminate
    \/ \E s \in DOMAIN stubs : Connect(s)
    \/ \E s \in DOMAIN stubs, w \in WaitStatuses : ClientExit(s, w)
    \/ \E s \in DOMAIN stubs, d \in {RunStateGo, RunStateInterrupt} : AwaitRunState(s, d)
    \/ \E s \in DOMAIN stubs : AwaitPoll(s)

SpecStub == InitStub /\ [][NextStub]_vars

\* Register and Exit calls on the Runner, the Exit calls traced.
NextExit ==
    \/ \E id \in ArgIDs : Register(id)
    \/ \E id \in ArgIDs, w \in WaitStatuses : ExitTraced(id, w)
    \/ Terminate

SpecExit == Init /\ [][NextExit]_vars

\* Client stubs that connect and exit, several of them with one ID, while
\* Run serves and returns.
NextConnect ==
    \/ RunListen
    \/ RunReturn
    \/ Terminate
    \/ \E s \in DOMAIN stubs : Connect(s)
    \/ \E s \in DOMAIN stubs, w \in WaitStatuses : ClientExit(s, w)

SpecConnect == InitStub /\ [][NextConnect]_vars

\* A job of CHECKOUT, COMMAND and at least one sidecar: the stub of slot i is
\* stub i + 1, Run serves them, and nothing calls Terminate or Interrupt. Run
\* and every container go on whenever they can.
InitProtocol ==
    /\ New
    /\ clientCount > commandContainerID + 1
    /\ stubs = [s \in 1 .. clientCount |-> Client(s - 1)]

NextProtocol ==
    \/ RunListen
    \/ RunReturn
    \/ \E s \in DOMAIN stubs : ParticipantConnect(s)
    \/ \E s \in DOMAIN stubs : ParticipantAwaitGo(s)
    \/ \E s \in DOMAIN stubs : AwaitPoll(s)
    \/ \E s \in DOMAIN stubs : ParticipantAwaitInterrupt(s)
    \/ \E s \in DOMAIN stubs, w \in WaitStatuses : ParticipantExit(s, w)

SpecProtocol ==
    /\ InitProtocol /\ [][NextProtocol]_vars
    /\ WF_vars(RunListen) /\ WF_vars(RunReturn)
    /\ \A s \in 1 .. MaxClients : WF_vars(s \in DOMAIN stubs /\ Participant(s))

\* Client stubs used as the io.Writer of the containers' logs.
NextWrite ==
    \/ RunListen
    \/ \E s \in DOMAIN stubs : Connect(s)
    \/ \E s \in DOMAIN stubs, p \in LogBuffers : ClientWrite(s, p)

SpecWrite == InitStub /\ [][NextWrite]_vars

----------------------------------------------------------------------------
(* Properties of the Runner *)

Sidecars == {i \in DOMAIN clients : i > commandContainerID}

Reply(state) == [reply |-> state, err |-> NoError]

ShutdownReply == [reply |-> RunStateZero, err |-> ErrShutdown]

NotShutDown == done # ChanClosed /\ interrupt # ChanClosed

LastCall(op) == ret.op = op

\* C1: while neither done nor interrupt has fired, Status(COMMAND) returns Go
\* exactly when the CHECKOUT slot is Exited and every sidecar slot is
\* Connected or Exited, and Wait otherwise, whatever the COMMAND slot's own
\* state and whatever the exit codes.
CommandGoIffReady ==
    LET expected ==
            IF /\ clients[checkoutContainerID].State = stateExited
               /\ \A i \in Sidecars :
                     clients[i].State \in {stateConnected, stateExited}
            THEN RunStateGo ELSE RunStateWait
    IN  NotShutDown =>
            /\ StatusOutcomes(commandContainerID) = {Reply(expected)}
            /\ (LastCall("Status") /\ ret.id = commandContainerID) =>
                   (ret.reply = expected /\ ret.err = NoError)

\* Status(COMMAND) has answered Go after COMMAND itself exited, with one
\* sidecar Connected and another Exited
CommandGoAfterCommandExit ==
    /\ NotShutDown
    /\ LastCall("Status") /\ ret.id = commandContainerID
    /\ ret.reply = RunStateGo
    /\ clients[commandContainerID].State = stateExited
    /\ clients[commandContainerID].ExitStatus = waitStatusFailure
    /\ \E i, j \in Sidecars :
          clients[i].State = stateConnected /\ clients[j].State = stateExited

\* C2: while neither done nor interrupt has fired, Status of a sidecar in the
\* registry returns Interrupt if COMMAND is Exited, else Go if CHECKOUT is
\* Exited, else Wait; no sidecar is told Go before CHECKOUT has exited.
SidecarVerdict ==
    NotShutDown =>
        /\ \A id \in Sidecars :
              StatusOutcomes(id) =
                 {Reply(IF clients[commandContainerID].State = stateExited
                        THEN RunStateInterrupt
                        ELSE IF clients[checkoutContainerID].State = stateExited
                             THEN RunStateGo
                             ELSE RunStateWait)}
        /\ (LastCall("Status") /\ ret.id \in Sidecars /\ ret.reply = RunStateGo) =>
               clients[checkoutContainerID].State = stateExited

\* a sidecar has been told Interrupt while CHECKOUT never exited
SidecarInterruptedBeforeCheckout ==
    /\ NotShutDown
    /\ LastCall("Status") /\ ret.id \in Sidecars
    /\ ret.reply = RunStateInterrupt
    /\ clients[checkoutContainerID].State = stateConnected

AllSlotsExited == \A i \in DOMAIN clients : clients[i].State = stateExited

\* C3: the done latch is fired exactly when Terminate() has been called or
\* every slot of the registry is Exited.
DoneIffTerminatedOrAllExited ==
    (done = ChanClosed) <=> (terminateCalled \/ AllSlotsExited)

\* the Exit of the last of four slots has fired done, with no Terminate
DoneByLastExit ==
    /\ LastCall("Exit") /\ ret.err = NoError
    /\ clientCount = MaxClients
    /\ AllSlotsExited
    /\ ~terminateCalled
    /\ done = ChanClosed

\* C4: with two slots or more, WaitStatus() returns the CHECKOUT slot's
\* recorded status when that status has a non-zero exit code and the COMMAND
\* slot's recorded status otherwise (nil if COMMAND never exited); the
\* statuses of the sidecars play no part.
WaitStatusAggregates ==
    LET checkout == clients[checkoutContainerID].ExitStatus
        expected ==
            IF checkout \in WaitStatuses /\ checkout.Code # 0
            THEN checkout
            ELSE clients[commandContainerID].ExitStatus
    IN  clientCount >= 2 =>
            /\ WaitStatusResult = [reply |-> expected, err |-> NoError]
            /\ LastCall("WaitStatus") => (ret.reply = expected /\ ret.err = NoError)

\* WaitStatus() has returned the successful status of COMMAND although a
\* sidecar exited with a failure
WaitStatusIgnoresSidecar ==
    /\ LastCall("WaitStatus")
    /\ ret.reply = waitStatusSuccess
    /\ clients[checkoutContainerID].ExitStatus = waitStatusSuccess
    /\ clients[commandContainerID].ExitStatus = waitStatusSuccess
    /\ \E i \in Sidecars : clients[i].ExitStatus = waitStatusFailure

\* C5: once Interrupt() has been called and while done has not fired, the
\* interrupt latch is fired and Status returns Interrupt for every ID.
InterruptFiresLatch ==
    (interruptCalled /\ done # ChanClosed) =>
        /\ interrupt = ChanClosed
        /\ \A id \in ArgIDs : StatusOutcomes(id) = {Reply(RunStateInterrupt)}

\* C8: a Register, Exit or WriteLogs call made when done has fired returns the
\* shutdown error and changes no slot.
MutatorsShutDownAfterDone ==
    [][(done = ChanClosed /\ ret'.op \in {"Register", "Exit", "WriteLogs"}) =>
           (ret'.err = ErrShutdown /\ clients' = clients)]_vars

\* C9: once done has fired, Status returns the shutdown error and writes no
\* RunState, for every ID, in the registry or not.
StatusShutDownAfterDone ==
    done = ChanClosed =>
        /\ \A id \in ArgIDs : StatusOutcomes(id) = {ShutdownReply}
        /\ LastCall("Status") => (ret.err = ErrShutdown /\ ret.reply = RunStateZero)

\* Status of an ID outside the registry has returned the shutdown error, done
\* having fired by the last Exit
ShutdownForUnknownID ==
    /\ done = ChanClosed /\ ~terminateCalled
    /\ LastCall("Status") /\ ret.id \notin DOMAIN clients
    /\ ret.err = ErrShutdown

\* C10 as claimed: a slot becomes Exited only from Connected.
ExitedOnlyFromConnected ==
    [][\A i \in DOMAIN clients :
          (clients'[i].State = stateExited /\ clients[i].State # stateExited) =>
              clients[i].State = stateConnected]_vars

\* C10: the distinct states a slot passes through are Unknown; or Unknown,
\* Connected; or Unknown, Connected, Exited; or Unknown, Exited: a slot becomes
\* Connected only from Unknown, and Exited from Connected or from Unknown.
SlotStatePath ==
    [][\A i \in DOMAIN clients :
          \/ clients'[i].State = clients[i].State
          \/ clients[i].State = stateUnknown /\ clients'[i].State = stateConnected
          \/ clients[i].State = stateUnknown /\ clients'[i].State = stateExited
          \/ clients[i].State = stateConnected /\ clients'[i].State = stateExited]_vars

\* Exit has moved a slot to Exited when no Register was ever called
ExitedWithoutRegister ==
    /\ LastCall("Exit") /\ ret.err = NoError
    /\ clients[ret.id].State = stateExited
    /\ ~startedOnce

\* C11: no step moves a slot to an earlier state in the order
\* Unknown < Connected < Exited.
SlotsNeverRegress ==
    [][\A i \in DOMAIN clients : clients'[i].State >= clients[i].State]_vars

\* Register has been refused on a slot that is Connected, which stays so
RegisterRefusedOnConnected ==
    /\ LastCall("Register") /\ ret.id \in DOMAIN clients
    /\ ret.err = ErrAlreadyRegistered(ret.id)
    /\ clients[ret.id].State = stateConnected

\* C12: started is fired by a Register call that succeeds, and by no other
\* step: a Register call that fails does not fire it.
StartedOnlyBySuccessfulRegister ==
    [][(started = ChanOpen /\ started' = ChanClosed) =>
           (ret'.op = "Register" /\ ret'.err = NoError)]_vars

\* C13: Register on a slot that is Connected or Exited returns an error and
\* no token and changes no slot; Register on an Unknown slot returns the
\* access token and no error, and sets that slot, and no other, to Connected.
RegisterOncePerSlot ==
    [][(ret'.op = "Register" /\ ret'.id \in DOMAIN clients) =>
           IF clients[ret'.id].State # stateUnknown
           THEN /\ ret'.err # NoError
                /\ ret'.reply = NoToken
                /\ clients' = clients
           ELSE /\ ret'.err = NoError
                /\ ret'.reply = AccessToken
                /\ clients' = [clients EXCEPT ![ret'.id] =
                                  [ExitStatus |-> clients[ret'.id].ExitStatus,
                                   State |-> stateConnected]]]_vars

\* Register has been refused on a slot that is Exited
RegisterRefusedOnExited ==
    /\ LastCall("Register") /\ ret.id \in DOMAIN clients
    /\ ret.err = ErrAlreadyRegistered(ret.id) /\ ret.reply = NoToken
    /\ clients[ret.id].State = stateExited

\* C14: the registry's IDs are 0 .. N-1 from New on and after every step, and
\* Register with an ID outside them returns an error and changes no slot.
RegistryFixed ==
    /\ DOMAIN clients = 0 .. clientCount - 1
    /\ [][/\ clientCount' = clientCount
          /\ DOMAIN clients' = 0 .. clientCount - 1
          /\ (ret'.op = "Register" /\ ret'.id \notin 0 .. clientCount - 1) =>
                 /\ ret'.err = ErrNotFound(ret'.id)
                 /\ ret'.reply = NoToken
                 /\ clients' = clients]_vars

\* Register(N) has been refused by a Runner of N slots, one of them Connected
RegisterRefusedBeyondRegistry ==
    /\ LastCall("Register") /\ ret.id = clientCount
    /\ ret.err = ErrNotFound(clientCount)
    /\ \E i \in DOMAIN clients : clients[i].State = stateConnected

\* C15: with a single slot, WaitStatus() after Exit(CHECKOUT, s) returns s,
\* done having fired.
SingleSlotWaitStatus ==
    (clientCount = 1 /\ LastCall("WaitStatus")
        /\ clients[checkoutContainerID].State = stateExited) =>
        /\ done = ChanClosed
        /\ ret.err = NoError
        /\ ret.reply = clients[checkoutContainerID].ExitStatus

\* C17: while neither done nor interrupt has fired, Status of an ID that is
\* not in the registry returns an error and writes no RunState.
StatusUnknownIDFails ==
    (NotShutDown /\ LastCall("Status") /\ ret.id \notin DOMAIN clients) =>
        (ret.err # NoError /\ ret.reply = RunStateZero)

\* C18: Exit(id, s) with an ID of the registry returns no error, sets that
\* slot to Exited with status s and changes no other slot; with any other ID
\* it returns an error, changes no slot and does not fire done.
ExitChangesItsSlotOnly ==
    [][ret'.op = "Exit" =>
           IF ret'.id \in DOMAIN clients
           THEN /\ ret'.err = NoError
                /\ clients' = [clients EXCEPT ![ret'.id] =
                                  [ExitStatus |-> ret'.reply, State |-> stateExited]]
           ELSE /\ ret'.err # NoError
                /\ clients' = clients
                /\ done' = done]_vars

\* Exit has replaced the status of a slot, beside a Connected and an Unknown
\* slot
ExitAmongOtherSlots ==
    /\ LastCall("Exit") /\ ret.id \in DOMAIN clients
    /\ ret.reply = waitStatusFailure
    /\ clients[ret.id].ExitStatus = waitStatusFailure
    /\ \E j, k \in DOMAIN clients :
          clients[j].State = stateConnected /\ clients[k].State = stateUnknown

\* C19: whatever the order of the Terminate() calls and the Exit calls, done
\* is closed once: the Once has run exactly when done is closed, no call
\* panics on closing done again, and done, once closed, stays closed.
DoneClosedOnce ==
    /\ [](closedOnce <=> done = ChanClosed)
    /\ [](crashed => ret.op \in {"Interrupt", "WaitStatus"})
    /\ [][done = ChanClosed => done' = ChanClosed]_vars

\* the Exit of the last slot has come after a Terminate()
LastExitAfterTerminate ==
    /\ LastCall("Exit") /\ ret.err = NoError
    /\ terminateCalled
    /\ AllSlotsExited
    /\ clientCount > 1
    /\ done = ChanClosed
    /\ ~crashed

\* C20: a call of Interrupt() or of Terminate(), the first or a later one,
\* returns without error and without a panic.
InterruptAndTerminateReturn ==
    (LastCall("Interrupt") \/ LastCall("Terminate")) =>
        (ret.err = NoError /\ ~crashed)

----------------------------------------------------------------------------
(* Properties of the client stub and of Run *)

\* C21: Status is a deterministic read. In every reachable state a
\* Status(id) call has one possible result, whatever the order of iteration
\* over the registry and whichever ready case the select takes; a Status call
\* changes no slot, no latch and no log; and a Status(id) call that follows
\* a Status(id) call directly returns what that one returned.
StatusIsDeterministicRead ==
    /\ [](\A id \in ArgIDs : Cardinality(StatusOutcomes(id)) = 1)
    /\ [][ret'.op = "Status" =>
              /\ UNCHANGED <<clients, latches, stdout>>
              /\ (ret.op = "Status" /\ ret.id = ret'.id) => ret' = ret]_vars

\* Status(COMMAND) has answered Wait where the order of the visits decides
\* which slot ends the loop: CHECKOUT not Exited and a sidecar Unknown,
\* beside a sidecar that is Connected
StatusOverMixedSlots ==
    /\ LastCall("Status") /\ ret.id = commandContainerID
    /\ ret.reply = RunStateWait /\ ret.err = NoError
    /\ clients[checkoutContainerID].State # stateExited
    /\ \E i, j \in Sidecars :
          clients[i].State = stateUnknown /\ clients[j].State = stateConnected

\* C22: while neither done nor interrupt has fired, Status(CHECKOUT) returns
\* Go and no error, whatever the state of any slot.
CheckoutAlwaysGo ==
    NotShutDown =>
        /\ StatusOutcomes(checkoutContainerID) = {Reply(RunStateGo)}
        /\ (LastCall("Status") /\ ret.id = checkoutContainerID) =>
               (ret.reply = RunStateGo /\ ret.err = NoError)

\* Status(CHECKOUT) has answered Go after CHECKOUT and COMMAND have exited
CheckoutGoAfterCommandExit ==
    /\ NotShutDown
    /\ LastCall("Status") /\ ret.id = checkoutContainerID
    /\ ret.reply = RunStateGo
    /\ clients[checkoutContainerID].State = stateExited
    /\ clients[commandContainerID].State = stateExited

\* C24: an Exit(id, s2) on a slot that is Exited already returns no error,
\* leaves the slot Exited with exit status s2, and changes no other slot.
ExitAgainRerecords ==
    [][(ret'.op = "Exit" /\ ret'.id \in DOMAIN clients
            /\ clients[ret'.id].State = stateExited) =>
           /\ ret'.err = NoError
           /\ clients' = [clients EXCEPT ![ret'.id] =
                             [ExitStatus |-> ret'.reply, State |-> stateExited]]]_vars

\* a second Exit has replaced a successful status by a failure, beside a
\* slot that is not Exited
SecondExitReplacedStatus ==
    /\ LastCall("Exit") /\ ret.err = NoError
    /\ replacedStatus = waitStatusSuccess
    /\ ret.reply = waitStatusFailure
    /\ clients[ret.id] = [ExitStatus |-> waitStatusFailure, State |-> stateExited]
    /\ \E j \in DOMAIN clients : clients[j].State # stateExited

\* the order Wait < Go < Interrupt of the verdicts
VerdictRank(state) ==
    IF state = RunStateWait THEN 0
    ELSE IF state = RunStateGo THEN 1
    ELSE 2

\* C27: for every ID, no step lowers a verdict of Status in the order
\* Wait < Go < Interrupt: whatever Status(id) may return without error after
\* a step is at least whatever it may return without error before it, so a
\* Status(id) that returned Go is never followed by one that returns Wait,
\* nor one that returned Interrupt by one that returns Wait or Go.
StatusVerdictsNeverRegress ==
    [][\A id \in ArgIDs :
          \A before \in StatusOutcomes(id) : \A after \in StatusOutcomes(id)' :
              (before.err = NoError /\ after.err = NoError) =>
                  VerdictRank(after.reply) >= VerdictRank(before.reply)]_vars

\* Status(COMMAND) has still answered Go after a sidecar and COMMAND itself
\* have exited
CommandStillGoAfterExits ==
    /\ NotShutDown
    /\ LastCall("Status") /\ ret.id = commandContainerID
    /\ ret.reply = RunStateGo
    /\ clients[commandContainerID].State = stateExited
    /\ \E i \in Sidecars : clients[i].State = stateExited

\* C28: once done has fired with every slot Exited, no step changes the
\* value that WaitStatus() returns (stated for the Runners that have a
\* COMMAND slot, where WaitStatus() returns a value in every state).
WaitStatusFinalAfterDone ==
    [][(done = ChanClosed /\ AllSlotsExited
            /\ commandContainerID \in DOMAIN clients) =>
           WaitStatusResult' = WaitStatusResult]_vars

\* C16: Client.Write(p) on a connected stub returns len(p) and no error;
\* with a sidecar's ID no byte reaches the Runner's log sink, with the ID of
\* CHECKOUT or COMMAND the sink receives exactly p.
WriteReportsLength ==
    [][(ret' # ret /\ ret'.op = "Write" /\ ret'.err # errNotConnected) =>
           /\ ret'.reply.n = Len(ret'.reply.p)
           /\ ret'.err = NoError
           /\ stdout' = IF ret'.id > commandContainerID
                        THEN stdout
                        ELSE stdout \o ret'.reply.p]_vars

\* the stubs with this ID whose Connect has reached Runner.Register
RegisterCallers(id) ==
    {s \in DOMAIN stubs : stubs[s].ID = id /\ stubs[s].client = "open"}

\* C29: whatever the order in which the stubs' Register calls reach the
\* Runner, of the stubs that have called Register with one ID exactly one has
\* got the access token and the others an error, and the slot is Connected
\* (or Exited since); the stubs of the other IDs make no difference to it. A
\* Register call that succeeds finds its slot Unknown and sets it, and no
\* other slot, to Connected.
OneRegistrationPerSlot ==
    /\ [](\A id \in DOMAIN clients :
             RegisterCallers(id) # {} =>
                 /\ Cardinality({s \in RegisterCallers(id) : stubs[s].registered}) = 1
                 /\ Connected(clients[id]))
    /\ [][\A s \in DOMAIN stubs :
             (stubs'[s].registered /\ ~stubs[s].registered) =>
                 /\ clients[stubs[s].ID].State = stateUnknown
                 /\ clients' = [clients EXCEPT ![stubs[s].ID].State = stateConnected]]_vars

\* two stubs with one ID have both called Register: one holds the token, the
\* other was refused
DuplicateConnectRefused ==
    \E s, t \in DOMAIN stubs :
        /\ s # t /\ stubs[s].ID = stubs[t].ID
        /\ stubs[s].client = "open" /\ stubs[t].client = "open"
        /\ stubs[s].registered /\ stubs[s].err = NoError
        /\ ~stubs[t].registered
        /\ stubs[t].op = "Connect"
        /\ stubs[t].err = ServerError(ErrAlreadyRegistered(stubs[t].ID))
        /\ clients[stubs[s].ID].State = stateConnected

\* C25: with at least three participants that follow the protocol, no
\* Terminate and no Interrupt, once Run serves every slot is eventually
\* Exited and done is fired.
JobEventuallyDone ==
    (runPc = "serving") ~> (AllSlotsExited /\ done = ChanClosed)

\* C26: the AwaitRunState(Go) of a registered sidecar that keeps polling
\* returns nil eventually once CHECKOUT has exited, whatever COMMAND does
\* between its polls.
SidecarAwaitGoReturns ==
    \A s \in 1 .. MaxClients :
        (/\ s \in DOMAIN stubs
         /\ IsSidecar(s) /\ stubs[s].registered
         /\ stubs[s].pc = "polling" /\ stubs[s].desired = RunStateGo
         /\ clients[checkoutContainerID].State = stateExited)
        ~> (s \in DOMAIN stubs /\ Returned(s, "AwaitRunState")
               /\ stubs[s].desired = RunStateGo)

\* C6: AwaitRunState(Interrupt) of a stub that Connect registered returns
\* without error, also when done has fired by then.
AwaitInterruptSucceeds ==
    \A s \in DOMAIN stubs :
        (/\ stubs[s].registered
         /\ stubs[s].pc = "idle" /\ stubs[s].op = "AwaitRunState"
         /\ stubs[s].desired = RunStateInterrupt)
            => stubs[s].err = NoError

\* C23: once Run has bound the socket, done fired (before or after the
\* bind, by the last Exit or by Terminate) leads to Run having returned nil
\* with the socket file removed; and Run does not return after the bind
\* while done is not fired.
RunReturnsOnDone ==
    /\ (runPc = "serving" /\ done = ChanClosed) ~>
           (runPc = "returned" /\ runErr = NoError /\ ~socketFile)
    /\ [](runPc = "returned" /\ runErr = NoError =>
              done = ChanClosed /\ ~socketFile /\ listener = "closed")
    /\ [][(runPc = "serving" /\ runPc' = "returned") => done = ChanClosed]_vars

\* Run has returned nil after the Exit of the last slot, with no Terminate()
RunReturnedAfterLastExit ==
    /\ runPc = "returned" /\ runErr = NoError
    /\ ~terminateCalled
    /\ AllSlotsExited
    /\ ~socketFile

\* C7: a cancellation of the context while Run is serving and done has not
\* fired leads to Run having returned, with the socket file removed, the
\* listener closed and done fired.
CancelStopsRun ==
    (runPc = "serving" /\ ctxCancelled /\ done # ChanClosed)
        ~> (/\ runPc = "returned"
            /\ ~socketFile
            /\ listener = "closed"
            /\ done = ChanClosed)

====
